---- MODULE Spec2Model ----
(***************************************************************************)
(* One libbitcoin channel (channel_pimpl): the asynchronous read chain     *)
(* header -> (checksum) -> payload -> dispatch, the outbound writes, the   *)
(* inactivity deadline_timer and the teardown requests sent to the owning  *)
(* network object.  Completion handlers run to completion on the           *)
(* io_service thread, so each handler is one action.  The dialect, the     *)
(* kernel and the peer are the environment: their answers are inputs.      *)
(***************************************************************************)
EXTENDS Integers, Sequences, FiniteSets

VARIABLES
    pc,                 \* position of the channel object in its life
    chan_id_counter,    \* static channel_pimpl::chan_id_counter
    channel_id_,        \* channel_pimpl::channel_id_
    read_op,            \* the outstanding async_read and the header bound to its callback
    async_reads,        \* number of async_read operations issued and not yet completed
    inbound_payload_,   \* size of the std::vector inbound_payload_
    write_ops,          \* number of outstanding async_write operations
    sends,              \* number of send() calls made so far
    timeout_,           \* the deadline_timer: expiry, pending wait, queued handlers
    now,                \* wall clock, in minutes
    disconnects,        \* number of network_->disconnect(channel_id_) calls
    io_teardowns,       \* how many of those calls problems_check made for a real error
    header_check,       \* the last verify_header call: its header and its answer
    last,               \* what the step just taken did (the observable effects of a handler)
    ctors               \* constructors running on several threads: their position and ids

vars == <<pc, chan_id_counter, channel_id_, read_op, inbound_payload_, write_ops,
          sends, timeout_, now, disconnects, io_teardowns, header_check, last, ctors, async_reads>>

----------------------------------------------------------------------------
(* Bounds of the model *)

MaxPayload == 1
MaxChecksum == 1
MaxWrites == 1
MaxSends == 1
MaxQueued == 2
MaxTime == 180
TickStep == 90
MaxThreads == 2
MaxChannels == 2

(* Program constants *)

\* const time_duration disconnect_timeout = seconds(0) + minutes(90);
disconnect_timeout == 90

\* static constexpr size_t header_chunk_size = 20;
header_chunk_size == 20

\* static constexpr size_t header_checksum_size = 4;
header_checksum_size == 4

\* channel_id_ before the constructor has assigned it.
NoId == -1

\* The commands handle_read_payload compares against, and one it does not know.
Dispatched == {"version", "verack", "addr", "inv", "block"}
Commands == Dispatched \cup {"getaddr"}

\* message::header as the channel uses it; checksum 0 stands for "not read".
Headers == [command : Commands, payload_length : 0..MaxPayload, checksum : {0}]
NoHeader == [command |-> "none", payload_length |-> 0, checksum |-> 0]

\* boost::system::error_code values the handlers tell apart.
Success == "success"
Aborted == "operation_aborted"
IoError == "error"

----------------------------------------------------------------------------
(* The record of one step's observable effects *)

Idle ==
    [handler |-> "none", ec |-> Success, hdr |-> NoHeader,
     verify_header |-> "na", checksum_used |-> "na",
     verify_checksum |-> "na", payload_size |-> 0,
     decode |-> "na", kernel |-> "na", kernel_msg |-> "none",
     teardowns |-> 0, read_issued |-> "none", read_size |-> 0,
     rearmed |-> FALSE, wait_cancelled |-> FALSE, write_issued |-> FALSE,
     calls |-> <<>>, checksum_read |-> 0]

\* A boolean answer as it is recorded in the step record.
Answer(b) == IF b THEN "true" ELSE "false"

Event(handler, ec) == [Idle EXCEPT !.handler = handler, !.ec = ec]

----------------------------------------------------------------------------
(* Helpers translated from the source *)

\* channel_pimpl::problems_check: TRUE in .stop means the handler returns at once.
problems_check_aborted_is_error(ec) ==
    IF ec # Success THEN [stop |-> TRUE, teardowns |-> 1]
    ELSE [stop |-> FALSE, teardowns |-> 0]

problems_check_error_ignored(ec) ==
    IF ec = Aborted THEN [stop |-> TRUE, teardowns |-> 0]
    ELSE IF ec # Success THEN [stop |-> TRUE, teardowns |-> 0]
    ELSE [stop |-> FALSE, teardowns |-> 0]

problems_check(ec) ==
    IF ec = Aborted THEN [stop |-> TRUE, teardowns |-> 0]
    ELSE IF ec # Success THEN [stop |-> TRUE, teardowns |-> 1]
    ELSE [stop |-> FALSE, teardowns |-> 0]

\* deadline_timer::cancel: a pending wait completes with operation_aborted;
\* handlers of waits that already expired stay queued with their success code.
MarkCancelled(q) == [i \in 1..Len(q) |-> [q[i] EXCEPT !.cancelled = TRUE]]

timer_cancel(tm) ==
    [tm EXCEPT
        !.pending = FALSE,
        !.queue = IF tm.pending
                  THEN Append(MarkCancelled(tm.queue), [ec |-> Aborted, cancelled |-> TRUE])
                  ELSE MarkCancelled(tm.queue)]

\* channel_pimpl::reset_timeout at time t: cancel, expires_from_now, async_wait.
reset_timeout_keeps_deadline(tm, t) ==
    [timer_cancel(tm) EXCEPT !.pending = TRUE]

reset_timeout(tm, t) ==
    [timer_cancel(tm) EXCEPT !.deadline = t + disconnect_timeout, !.pending = TRUE]

\* channel_pimpl::transport_payload(payload, ret_errc); accept is the kernel's answer.
transport_payload_ignores_reject(ret_errc, accept) ==
    IF ret_errc THEN [ret |-> FALSE, kernel |-> "na", teardowns |-> 1]
    ELSE [ret |-> TRUE, kernel |-> IF accept THEN "accept" ELSE "reject", teardowns |-> 0]

transport_payload_ignores_errc(ret_errc, accept) ==
    IF ~accept THEN [ret |-> FALSE, kernel |-> "reject", teardowns |-> 1]
    ELSE [ret |-> TRUE, kernel |-> "accept", teardowns |-> 0]

transport_payload(ret_errc, accept) ==
    IF ret_errc THEN [ret |-> FALSE, kernel |-> "na", teardowns |-> 1]
    ELSE IF ~accept THEN [ret |-> FALSE, kernel |-> "reject", teardowns |-> 1]
    ELSE [ret |-> TRUE, kernel |-> "accept", teardowns |-> 0]

\* handle_read_header after the parse: which read follows ("none": teardown).
header_next_unchecked(verify_ok, cs_used) ==
    IF cs_used THEN "checksum" ELSE "payload"

header_next_bad_header_skipped(verify_ok, cs_used) ==
    IF ~verify_ok THEN "header"
    ELSE IF cs_used THEN "checksum" ELSE "payload"

header_next_checksum_always(verify_ok, cs_used) ==
    IF ~verify_ok THEN "none" ELSE "checksum"

header_next(verify_ok, cs_used) ==
    IF ~verify_ok THEN "none"
    ELSE IF cs_used THEN "checksum" ELSE "payload"

\* handle_read_payload after problems_check: the checksum test and the dispatch.
\* decode_failed is the dialect's ret_errc; verack is built without a decode.
payload_dispatch_skips_checksum(h, cs_ok, decode_failed, accept) ==
    IF h.command \in Dispatched
    THEN LET ret_errc == IF h.command = "verack" THEN FALSE ELSE decode_failed
             tp == transport_payload(ret_errc, accept)
         IN  [continue |-> tp.ret, kernel |-> tp.kernel, teardowns |-> tp.teardowns,
              decode |-> IF h.command = "verack" THEN "na" ELSE Answer(~ret_errc)]
    ELSE [continue |-> TRUE, kernel |-> "na", teardowns |-> 0, decode |-> "na"]

payload_dispatch_unknown_is_fatal(h, cs_ok, decode_failed, accept) ==
    IF ~cs_ok
    THEN [continue |-> FALSE, kernel |-> "na", teardowns |-> 1, decode |-> "na"]
    ELSE IF h.command \in Dispatched
    THEN LET ret_errc == IF h.command = "verack" THEN FALSE ELSE decode_failed
             tp == transport_payload(ret_errc, accept)
         IN  [continue |-> tp.ret, kernel |-> tp.kernel, teardowns |-> tp.teardowns,
              decode |-> IF h.command = "verack" THEN "na" ELSE Answer(~ret_errc)]
    ELSE [continue |-> FALSE, kernel |-> "na", teardowns |-> 1, decode |-> "na"]

payload_dispatch_verack_dropped(h, cs_ok, decode_failed, accept) ==
    IF ~cs_ok
    THEN [continue |-> FALSE, kernel |-> "na", teardowns |-> 1, decode |-> "na"]
    ELSE IF h.command \in Dispatched \ {"verack"}
    THEN LET tp == transport_payload(decode_failed, accept)
         IN  [continue |-> tp.ret, kernel |-> tp.kernel, teardowns |-> tp.teardowns,
              decode |-> Answer(~decode_failed)]
    ELSE [continue |-> TRUE, kernel |-> "na", teardowns |-> 0, decode |-> "na"]

payload_dispatch(h, cs_ok, decode_failed, accept) ==
    IF ~cs_ok
    THEN [continue |-> FALSE, kernel |-> "na", teardowns |-> 1, decode |-> "na"]
    ELSE IF h.command \in Dispatched
    THEN LET ret_errc == IF h.command = "verack" THEN FALSE ELSE decode_failed
             tp == transport_payload(ret_errc, accept)
         IN  [continue |-> tp.ret, kernel |-> tp.kernel, teardowns |-> tp.teardowns,
              decode |-> IF h.command = "verack" THEN "na" ELSE Answer(~ret_errc)]
    ELSE [continue |-> TRUE, kernel |-> "na", teardowns |-> 0, decode |-> "na"]

\* The tail of a read handler that goes on: it issues the next read, then
\* calls reset_timeout.
stage_calls_rearm_first(read) == <<"reset_timeout", read>>

stage_calls_missing_else(read) ==
    IF read = "read_checksum"
    THEN <<"read_checksum", "read_payload", "reset_timeout">>
    ELSE <<read, "reset_timeout">>

stage_calls(read) == <<read, "reset_timeout">>

\* read_header, read_checksum and read_payload each start one async_read.
ReadCalls == {"read_header", "read_checksum", "read_payload"}
ReadCount(calls) == Cardinality({i \in 1..Len(calls) : calls[i] \in ReadCalls})

\* channel_pimpl::read_payload with the bound header h: the size the buffer
\* is resized to and the number of bytes the read asks for.
read_payload_no_resize(buf, h) ==
    [buffer |-> buf, request |-> h.payload_length]

read_payload(buf, h) ==
    [buffer |-> h.payload_length, request |-> h.payload_length]

\* channel_pimpl::handle_timeout: the number of destroy_self calls it makes.
handle_timeout_only_logs(ec) ==
    problems_check(ec).teardowns

handle_timeout(ec) ==
    IF problems_check(ec).stop THEN problems_check(ec).teardowns ELSE 1

\* channel_pimpl::handle_send: problems_check and nothing else; the timer is
\* left as it is.
handle_send_rearms(ec, tm, t) ==
    [teardowns |-> problems_check(ec).teardowns,
     timeout |-> IF problems_check(ec).stop THEN tm ELSE reset_timeout(tm, t)]

handle_send(ec, tm, t) ==
    [teardowns |-> problems_check(ec).teardowns, timeout |-> tm]

\* The error codes a socket operation can complete with: operation_aborted
\* once the destructor has closed the socket, success or a real error before.
CompletionCodes == IF pc = "destroyed" THEN {Aborted} ELSE {Success, IoError}

\* The loop can only go on while the queue of timer handlers has room.
QueueHasRoom == Len(timeout_.queue) < MaxQueued

\* The threads that construct channels, each MaxChannels of them in a row.
Threads == 1..MaxThreads

\* No constructor is running; no channel has been built.
NoCtors ==
    [t \in Threads |-> [at |-> "entry", loaded |-> 0, built |-> 0, ids |-> <<>>]]

----------------------------------------------------------------------------
Init ==
    /\ pc = "ctor_id"
    /\ chan_id_counter = 0
    /\ channel_id_ = NoId
    /\ read_op = [stage |-> "none", hdr |-> NoHeader]
    /\ async_reads = 0
    /\ inbound_payload_ = 0
    /\ write_ops = 0
    /\ sends = 0
    /\ timeout_ = [deadline |-> 0, pending |-> FALSE, queue |-> <<>>]
    /\ now = 0
    /\ disconnects = 0
    /\ io_teardowns = 0
    /\ header_check = [hdr |-> NoHeader, result |-> FALSE]
    /\ last = Idle
    /\ ctors = NoCtors

----------------------------------------------------------------------------
(* The constructor, statement by statement *)

ctor_after_handshake_first(step) ==
    CASE step = "ctor_id"    -> "ctor_send"
      [] step = "ctor_send"  -> "ctor_read"
      [] step = "ctor_read"  -> "ctor_timer"
      [] step = "ctor_timer" -> "running"

\* The order of the constructor's statements: the id, read_header(),
\* reset_timeout(), send(create_version_message()), return.
ctor_after(step) ==
    CASE step = "ctor_id"    -> "ctor_read"
      [] step = "ctor_read"  -> "ctor_timer"
      [] step = "ctor_timer" -> "ctor_send"
      [] step = "ctor_send"  -> "running"

CtorAssignId ==
    /\ pc = "ctor_id"
    /\ channel_id_' = chan_id_counter
    /\ chan_id_counter' = chan_id_counter + 1
    /\ pc' = ctor_after(pc)
    /\ last' = Event("ctor", Success)
    /\ UNCHANGED <<ctors, async_reads, read_op, inbound_payload_, write_ops, sends, timeout_, now,
                   disconnects, io_teardowns, header_check>>

CtorReadHeader ==
    /\ pc = "ctor_read"
    /\ read_op' = [stage |-> "header", hdr |-> NoHeader]
    /\ pc' = ctor_after(pc)
    /\ last' = [Event("ctor", Success) EXCEPT !.read_issued = "header",
                                               !.read_size = header_chunk_size,
                                               !.calls = <<"read_header">>]
    /\ async_reads' = async_reads + ReadCount(last'.calls)
    /\ UNCHANGED <<ctors, chan_id_counter, channel_id_, inbound_payload_, write_ops, sends,
                   timeout_, now, disconnects, io_teardowns, header_check>>

CtorResetTimeout ==
    /\ pc = "ctor_timer"
    /\ timeout_' = reset_timeout(timeout_, now)
    /\ pc' = ctor_after(pc)
    /\ last' = [Event("ctor", Success) EXCEPT !.rearmed = TRUE,
                                               !.calls = <<"reset_timeout">>]
    /\ UNCHANGED <<ctors, async_reads, chan_id_counter, channel_id_, read_op, inbound_payload_, write_ops,
                   sends, now, disconnects, io_teardowns, header_check>>

CtorSend ==
    /\ pc = "ctor_send"
    /\ write_ops' = write_ops + 1
    /\ pc' = ctor_after(pc)
    /\ last' = [Event("ctor", Success) EXCEPT !.write_issued = TRUE,
                                               !.calls = <<"send">>]
    /\ UNCHANGED <<ctors, async_reads, chan_id_counter, channel_id_, read_op, inbound_payload_, sends,
                   timeout_, now, disconnects, io_teardowns, header_check>>

Constructed == pc \in {"running", "destroyed"}

----------------------------------------------------------------------------
(* The read chain *)

\* handle_read_header: the completion of the 20-byte header read.  h is the
\* header the dialect parsed, verify_ok and cs_used are the dialect's answers
\* to verify_header and checksum_used.
HandleReadHeader ==
    /\ Constructed
    /\ read_op.stage = "header"
    /\ QueueHasRoom
    /\ \E ec \in CompletionCodes, h \in Headers, verify_ok \in BOOLEAN, cs_used \in BOOLEAN :
        LET pck == problems_check(ec)
            next == header_next(verify_ok, cs_used)
        IN  IF pck.stop
            THEN /\ read_op' = [stage |-> "none", hdr |-> NoHeader]
                 /\ disconnects' = disconnects + pck.teardowns
                 /\ io_teardowns' = io_teardowns + pck.teardowns
                 /\ last' = [Event("read_header", ec) EXCEPT !.teardowns = pck.teardowns]
                 /\ UNCHANGED <<inbound_payload_, timeout_, header_check>>
            ELSE /\ header_check' = [hdr |-> h, result |-> verify_ok]
                 /\ io_teardowns' = io_teardowns
                 /\ IF next = "none"
                    THEN /\ read_op' = [stage |-> "none", hdr |-> NoHeader]
                         /\ disconnects' = disconnects + 1
                         /\ last' = [Event("read_header", ec) EXCEPT
                                        !.hdr = h, !.verify_header = Answer(verify_ok),
                                        !.teardowns = 1,
                                        !.calls = <<"verify_header", "destroy_self">>]
                         /\ UNCHANGED <<inbound_payload_, timeout_>>
                    ELSE /\ read_op' = [stage |-> next, hdr |-> h]
                         /\ inbound_payload_' =
                                IF next = "payload"
                                THEN read_payload(inbound_payload_, h).buffer
                                ELSE inbound_payload_
                         /\ timeout_' = reset_timeout(timeout_, now)
                         /\ disconnects' = disconnects
                         /\ last' = [Event("read_header", ec) EXCEPT
                                        !.hdr = h, !.verify_header = Answer(verify_ok),
                                        !.checksum_used = Answer(cs_used),
                                        !.read_issued = next,
                                        !.read_size =
                                            IF next = "payload"
                                            THEN read_payload(inbound_payload_, h).request
                                            ELSE header_checksum_size,
                                        !.rearmed = TRUE,
                                        !.calls = <<"verify_header", "checksum_used">>
                                                  \o stage_calls("read_" \o next)]
    /\ async_reads' = async_reads - 1 + ReadCount(last'.calls)
    /\ UNCHANGED <<ctors, pc, chan_id_counter, channel_id_, write_ops, sends, now>>

\* handle_read_checksum: the completion of the 4-byte checksum read; cs is the
\* value checksum_from_network returns, stored in the bound header.
HandleReadChecksum ==
    /\ Constructed
    /\ read_op.stage = "checksum"
    /\ QueueHasRoom
    /\ \E ec \in CompletionCodes, cs \in 1..MaxChecksum :
        LET pck == problems_check(ec)
            h == [read_op.hdr EXCEPT !.checksum = cs]
        IN  IF pck.stop
            THEN /\ read_op' = [stage |-> "none", hdr |-> NoHeader]
                 /\ disconnects' = disconnects + pck.teardowns
                 /\ io_teardowns' = io_teardowns + pck.teardowns
                 /\ last' = [Event("read_checksum", ec) EXCEPT !.teardowns = pck.teardowns]
                 /\ UNCHANGED <<inbound_payload_, timeout_>>
            ELSE /\ read_op' = [stage |-> "payload", hdr |-> h]
                 /\ io_teardowns' = io_teardowns
                 /\ inbound_payload_' = read_payload(inbound_payload_, h).buffer
                 /\ timeout_' = reset_timeout(timeout_, now)
                 /\ disconnects' = disconnects
                 /\ last' = [Event("read_checksum", ec) EXCEPT
                                !.hdr = h, !.read_issued = "payload",
                                !.checksum_read = cs,
                                !.read_size = read_payload(inbound_payload_, h).request,
                                !.rearmed = TRUE,
                                !.calls = stage_calls("read_payload")]
    /\ async_reads' = async_reads - 1 + ReadCount(last'.calls)
    /\ UNCHANGED <<ctors, pc, chan_id_counter, channel_id_, write_ops, sends, now, header_check>>

\* handle_read_payload: the completion of the payload read.  cs_ok is the
\* dialect's verify_checksum, decode_failed its ret_errc, accept the kernel's
\* recv_message.
HandleReadPayload ==
    /\ Constructed
    /\ read_op.stage = "payload"
    /\ QueueHasRoom
    /\ \E ec \in CompletionCodes, cs_ok \in BOOLEAN, decode_failed \in BOOLEAN,
          accept \in BOOLEAN :
        LET pck == problems_check(ec)
            h == read_op.hdr
            d == payload_dispatch(h, cs_ok, decode_failed, accept)
            ev == [Event("read_payload", ec) EXCEPT
                      !.hdr = h, !.verify_checksum = Answer(cs_ok),
                      !.payload_size = inbound_payload_,
                      !.decode = d.decode, !.kernel = d.kernel,
                      !.kernel_msg = IF d.kernel = "na" THEN "none" ELSE h.command,
                      !.teardowns = d.teardowns,
                      !.calls = <<"verify_checksum">>
                                \o (IF d.kernel # "na" THEN <<"recv_message">> ELSE <<>>)
                                \o (IF d.teardowns > 0 THEN <<"destroy_self">> ELSE <<>>)]
        IN  IF pck.stop
            THEN /\ read_op' = [stage |-> "none", hdr |-> NoHeader]
                 /\ disconnects' = disconnects + pck.teardowns
                 /\ io_teardowns' = io_teardowns + pck.teardowns
                 /\ last' = [Event("read_payload", ec) EXCEPT !.teardowns = pck.teardowns]
                 /\ UNCHANGED timeout_
            ELSE IF ~d.continue
            THEN /\ read_op' = [stage |-> "none", hdr |-> NoHeader]
                 /\ disconnects' = disconnects + d.teardowns
                 /\ io_teardowns' = io_teardowns
                 /\ last' = ev
                 /\ UNCHANGED timeout_
            ELSE /\ read_op' = [stage |-> "header", hdr |-> NoHeader]
                 /\ io_teardowns' = io_teardowns
                 /\ timeout_' = reset_timeout(timeout_, now)
                 /\ disconnects' = disconnects + d.teardowns
                 /\ last' = [ev EXCEPT !.read_issued = "header", !.read_size = header_chunk_size,
                                       !.rearmed = TRUE,
                                       !.calls = @ \o stage_calls("read_header")]
    /\ async_reads' = async_reads - 1 + ReadCount(last'.calls)
    /\ UNCHANGED <<ctors, pc, chan_id_counter, channel_id_, inbound_payload_, write_ops, sends,
                   now, header_check>>

----------------------------------------------------------------------------
(* Outbound messages *)

\* channel_pimpl::send (any of the five overloads) -> generic_send -> async_write.
Send ==
    /\ pc = "running"
    /\ write_ops < MaxWrites
    /\ sends < MaxSends
    /\ write_ops' = write_ops + 1
    /\ sends' = sends + 1
    /\ last' = [Event("send", Success) EXCEPT !.write_issued = TRUE]
    /\ UNCHANGED <<ctors, async_reads, pc, chan_id_counter, channel_id_, read_op, inbound_payload_,
                   timeout_, now, disconnects, io_teardowns, header_check>>

\* channel_pimpl::handle_send
HandleSend ==
    /\ Constructed
    /\ write_ops > 0
    /\ \E ec \in CompletionCodes :
        LET hs == handle_send(ec, timeout_, now)
        IN  /\ disconnects' = disconnects + hs.teardowns
            /\ io_teardowns' = io_teardowns + hs.teardowns
            /\ timeout_' = hs.timeout
            /\ last' = [Event("handle_send", ec) EXCEPT !.teardowns = hs.teardowns]
    /\ write_ops' = write_ops - 1
    /\ UNCHANGED <<ctors, async_reads, pc, chan_id_counter, channel_id_, read_op, inbound_payload_, sends,
                   now, header_check>>

----------------------------------------------------------------------------
(* The inactivity timer *)

\* Time passes.
Tick ==
    /\ Constructed
    /\ now + TickStep <= MaxTime
    /\ now' = now + TickStep
    /\ last' = Idle
    /\ UNCHANGED <<ctors, async_reads, pc, chan_id_counter, channel_id_, read_op, inbound_payload_,
                   write_ops, sends, timeout_, disconnects, io_teardowns, header_check>>

\* The pending wait started by async_wait expires: its handler is queued with
\* the success code and can no longer be cancelled.
TimerExpire ==
    /\ timeout_.pending
    /\ now >= timeout_.deadline
    /\ timeout_' = [timeout_ EXCEPT
                       !.pending = FALSE,
                       !.queue = Append(@, [ec |-> Success, cancelled |-> FALSE])]
    /\ last' = Idle
    /\ UNCHANGED <<ctors, async_reads, pc, chan_id_counter, channel_id_, read_op, inbound_payload_,
                   write_ops, sends, now, disconnects, io_teardowns, header_check>>

\* handle_timeout runs for the oldest queued wait.  After the destructor the
\* handler of a wait that had already expired runs on the freed object: the
\* call of destroy_self through it may or may not reach the network.
HandleTimeout ==
    /\ Constructed
    /\ timeout_.queue # <<>>
    /\ LET w == Head(timeout_.queue)
           pck == problems_check(w.ec)
       IN  \E reaches \in (IF pc = "destroyed" /\ ~pck.stop THEN BOOLEAN ELSE {TRUE}) :
            LET n == IF reaches THEN handle_timeout(w.ec) ELSE 0
            IN  /\ disconnects' = disconnects + n
                /\ io_teardowns' = io_teardowns + pck.teardowns
                /\ last' = [Event("handle_timeout", w.ec) EXCEPT
                               !.teardowns = n, !.wait_cancelled = w.cancelled]
    /\ timeout_' = [timeout_ EXCEPT !.queue = Tail(@)]
    /\ UNCHANGED <<ctors, async_reads, pc, chan_id_counter, channel_id_, read_op, inbound_payload_,
                   write_ops, sends, now, header_check>>

----------------------------------------------------------------------------
(* Destruction *)

\* The network object destroys a channel only after the channel asked for it.
GatewayMayDestroy == disconnects > 0

\* channel_pimpl::~channel_pimpl: the socket is shut down and closed (the
\* outstanding operations will complete with operation_aborted) and the timer
\* is cancelled.
Destroy ==
    /\ pc = "running"
    /\ GatewayMayDestroy
    /\ pc' = "destroyed"
    /\ timeout_' = timer_cancel(timeout_)
    /\ last' = Event("destroy", Success)
    /\ UNCHANGED <<ctors, async_reads, chan_id_counter, channel_id_, read_op, inbound_payload_, write_ops,
                   sends, now, disconnects, io_teardowns, header_check>>

----------------------------------------------------------------------------
Next ==
    \/ CtorAssignId
    \/ CtorReadHeader
    \/ CtorResetTimeout
    \/ CtorSend
    \/ HandleReadHeader
    \/ HandleReadChecksum
    \/ HandleReadPayload
    \/ Send
    \/ HandleSend
    \/ Tick
    \/ TimerExpire
    \/ HandleTimeout
    \/ Destroy

Spec == Init /\ [][Next]_vars

----------------------------------------------------------------------------
(* Several constructors sharing chan_id_counter *)

\* The variables of the single channel followed above.
channel_vars == <<pc, channel_id_, read_op, async_reads, inbound_payload_, write_ops, sends,
                  timeout_, now, disconnects, io_teardowns, header_check, last>>

\* channel_id_ = chan_id_counter; of the channel thread t is constructing.
ThreadAssignId(t) ==
    /\ ctors[t].at = "entry"
    /\ ctors[t].built < MaxChannels
    /\ ctors' = [ctors EXCEPT ![t].at = "assigned",
                              ![t].ids = Append(@, chan_id_counter)]
    /\ UNCHANGED <<chan_id_counter, channel_vars>>

\* chan_id_counter++ is a load and a store of a plain static: the load.
ThreadLoadCounter(t) ==
    /\ ctors[t].at = "assigned"
    /\ ctors' = [ctors EXCEPT ![t].at = "loaded", ![t].loaded = chan_id_counter]
    /\ UNCHANGED <<chan_id_counter, channel_vars>>

\* chan_id_counter++: the store; the rest of the constructor follows.
ThreadStoreCounter(t) ==
    /\ ctors[t].at = "loaded"
    /\ chan_id_counter' = ctors[t].loaded + 1
    /\ ctors' = [ctors EXCEPT ![t].at = "entry", ![t].loaded = 0,
                              ![t].built = @ + 1]
    /\ UNCHANGED channel_vars

NextIds ==
    \E t \in Threads :
        \/ ThreadAssignId(t)
        \/ ThreadLoadCounter(t)
        \/ ThreadStoreCounter(t)

SpecIds == Init /\ [][NextIds]_vars

\* Time passes, a wait whose deadline has passed expires, and the io_service
\* runs the timer handlers it has queued.
FairSpec ==
    /\ Spec
    /\ WF_vars(Tick)
    /\ WF_vars(TimerExpire)
    /\ WF_vars(HandleTimeout)

----------------------------------------------------------------------------
(* Properties *)

ReadHandlers == {"read_header", "read_checksum", "read_payload"}

\* The step just taken was a completion handler of the read chain that got
\* past problems_check.
ReadCompleted == last.handler \in ReadHandlers /\ last.ec = Success

\* C1: a message is handed to the kernel only by the payload handler, only
\* when the latest verify_header call answered true for the header of that
\* message, and only when verify_checksum answered true for that header and
\* the completed payload (the buffer filled to the declared length).
C1_DeliveryAfterChecks ==
    last.kernel # "na" =>
        /\ last.handler = "read_payload"
        /\ header_check.result = TRUE
        /\ header_check.hdr.command = last.kernel_msg
        /\ header_check.hdr.payload_length = last.hdr.payload_length
        /\ last.hdr.command = last.kernel_msg
        /\ last.verify_checksum = "true"
        /\ last.payload_size = last.hdr.payload_length

C1_Witness ==
    /\ last.kernel = "accept"
    /\ last.kernel_msg = "block"
    /\ last.hdr.checksum # 0
    /\ last.verify_checksum = "true"

\* C2: a payload completion without error whose verify_checksum answers false
\* requests teardown exactly once, does not call the kernel and issues no read.
C2_BadChecksum ==
    (ReadCompleted /\ last.verify_checksum = "false") =>
        /\ last.teardowns = 1
        /\ disconnects >= 1
        /\ last.kernel = "na"
        /\ last.read_issued = "none"
        /\ read_op.stage = "none"

C2_Witness ==
    /\ last.handler = "read_payload"
    /\ last.verify_checksum = "false"
    /\ last.hdr.checksum # 0
    /\ last.teardowns = 1

\* C3: a header completion without error whose verify_header answers false
\* requests teardown exactly once and issues no read, and from then on no read
\* is ever outstanding on the channel again.
C3_BadHeader ==
    /\ []((ReadCompleted /\ last.verify_header = "false") =>
            /\ last.teardowns = 1
            /\ last.read_issued = "none"
            /\ ~last.rearmed
            /\ read_op.stage = "none")
    /\ [][(Constructed /\ read_op.stage = "none") => read_op'.stage = "none"]_vars

C3_Witness ==
    /\ last.handler = "read_header"
    /\ last.verify_header = "false"
    /\ last.teardowns = 1
    /\ disconnects = 1

\* C4: when the kernel rejects a delivered message the handler requests
\* teardown exactly once and issues no read; when it accepts, the handler
\* requests no teardown and issues the next header read.
C4_KernelVerdict ==
    /\ last.kernel = "reject" =>
        /\ last.kernel_msg \in Dispatched
        /\ last.teardowns = 1
        /\ last.read_issued = "none"
        /\ read_op.stage = "none"
    /\ last.kernel = "accept" =>
        /\ last.kernel_msg \in Dispatched
        /\ last.teardowns = 0
        /\ last.read_issued = "header"
        /\ read_op.stage = "header"

C4_Witness ==
    /\ last.kernel = "reject"
    /\ last.kernel_msg = "block"
    /\ last.teardowns = 1

\* C5: when the body decode of a version, addr, inv or block message reports
\* failure, the handler requests teardown exactly once, does not call the
\* kernel and issues no header read.
C5_DecodeFailure ==
    last.decode = "false" =>
        /\ last.hdr.command \in Dispatched \ {"verack"}
        /\ last.verify_checksum = "true"
        /\ last.teardowns = 1
        /\ last.kernel = "na"
        /\ last.read_issued = "none"
        /\ read_op.stage = "none"

C5_Witness ==
    /\ last.decode = "false"
    /\ last.hdr.command = "inv"
    /\ last.teardowns = 1

\* C6: handle_timeout requests teardown exactly when no cancel() was called
\* on the timer between the start of its wait and the run of the handler:
\* never for a wait that reset_timeout cancelled, exactly once for a wait that
\* expired uncancelled.  Stated for the handlers that run while the channel
\* object is alive, where every cancel is the one of reset_timeout.
C6_TimeoutIffNotCancelled ==
    (last.handler = "handle_timeout" /\ pc = "running") =>
        last.teardowns = (IF last.wait_cancelled THEN 0 ELSE 1)

\* C7 as stated: every completion without error of a header, checksum or
\* payload read leaves the timer armed at the completion time plus the timeout.
C7_EveryCompletionRearms ==
    ReadCompleted =>
        /\ last.rearmed
        /\ timeout_.pending
        /\ timeout_.deadline = now + disconnect_timeout

\* C7 as amended: every completion without error of a header, checksum or
\* payload read whose handler requests no teardown leaves the timer armed at
\* the completion time plus the timeout; a handler that requests teardown
\* does not rearm.
C7_ContinuingCompletionRearms ==
    ReadCompleted =>
        IF last.teardowns = 0
        THEN /\ last.rearmed
             /\ timeout_.pending
             /\ timeout_.deadline = now + disconnect_timeout
        ELSE ~last.rearmed

C7_Witness ==
    /\ last.handler = "read_checksum"
    /\ last.ec = Success
    /\ now = disconnect_timeout
    /\ timeout_.deadline = now + disconnect_timeout

\* C8: a read, write or timer handler that is passed operation_aborted
\* requests no teardown, delivers nothing, does not rearm the timer and
\* issues no read.
C8_AbortedSwallowed ==
    last.ec = Aborted =>
        /\ last.teardowns = 0
        /\ last.kernel = "na"
        /\ ~last.rearmed
        /\ last.read_issued = "none"
        /\ ~last.write_issued
        /\ last.handler \in ReadHandlers => read_op.stage = "none"

C8_Witness ==
    /\ last.ec = Aborted
    /\ last.handler = "read_payload"
    /\ write_ops > 0

\* C9 as stated: a read or write completion with a real error requests
\* teardown, and real errors never produce more than one teardown request
\* over the life of the channel.
C9_OneTeardownInTotal ==
    /\ last.ec = IoError => last.teardowns = 1
    /\ io_teardowns <= 1

\* C9 as amended: each read or write completion with a real error requests
\* teardown exactly once in its own handler (and does nothing else); the
\* requests of several failures add up.
C9_OneTeardownPerFailure ==
    last.ec = IoError =>
        /\ last.handler \in ReadHandlers \cup {"handle_send"}
        /\ last.teardowns = 1
        /\ io_teardowns >= 1
        /\ disconnects >= io_teardowns
        /\ last.kernel = "na"
        /\ last.read_issued = "none"
        /\ ~last.rearmed

C9_Witness ==
    /\ last.ec = IoError
    /\ last.handler = "handle_send"
    /\ read_op.stage = "none"
    /\ io_teardowns = 2
    /\ disconnects = 2

\* C10: a payload completion for a command the engine does not dispatch, with
\* header and checksum verified, has read the declared length, calls no
\* kernel, requests no teardown, rearms the timer and issues the header read.
C10_UnknownCommand ==
    (ReadCompleted /\ last.handler = "read_payload" /\ last.verify_checksum = "true"
        /\ last.hdr.command \notin Dispatched) =>
        /\ header_check.result = TRUE
        /\ last.payload_size = last.hdr.payload_length
        /\ inbound_payload_ = last.hdr.payload_length
        /\ last.kernel = "na"
        /\ last.decode = "na"
        /\ last.teardowns = 0
        /\ last.rearmed
        /\ timeout_.deadline = now + disconnect_timeout
        /\ last.read_issued = "header"
        /\ read_op.stage = "header"

C10_Witness ==
    /\ last.handler = "read_payload"
    /\ last.hdr.command = "getaddr"
    /\ last.hdr.payload_length = MaxPayload
    /\ last.verify_checksum = "true"
    /\ last.read_issued = "header"

\* The timer handler just ran for a wait that expired, on a live channel.
TimeoutFired ==
    last.handler = "handle_timeout" /\ last.ec = Success /\ pc = "running"

\* The clock of the model, which Tick advances by TickStep up to MaxTime,
\* gets to time d.
ClockReaches(d) ==
    \E k \in 0..(MaxTime \div TickStep) :
        now + k * TickStep >= d /\ now + k * TickStep <= MaxTime

\* C11: once the timer is armed on a live channel (with a deadline the clock
\* of the model reaches), either a read stage completes and rearms it, or the
\* channel is destroyed, or the wait expires and handle_timeout issues one
\* teardown request; that request is made by handle_timeout itself, never
\* through the I/O-error path of problems_check.
C11_SilenceLeadsToTimeout ==
    /\ (pc = "running" /\ timeout_.pending /\ ClockReaches(timeout_.deadline))
          ~> ((TimeoutFired /\ last.teardowns = 1) \/ last.rearmed \/ pc = "destroyed")
    /\ [](TimeoutFired => last.teardowns = 1 /\ disconnects >= 1)
    /\ [][last'.handler = "handle_timeout" => io_teardowns' = io_teardowns]_vars

\* The peer stayed silent: the first header read is still outstanding when
\* the timer armed by the constructor fires.
C11_Witness ==
    /\ TimeoutFired
    /\ ~last.wait_cancelled
    /\ read_op.stage = "header"
    /\ header_check.hdr = NoHeader
    /\ last.teardowns = 1
    /\ disconnects = 1
    /\ io_teardowns = 0

\* C12: no two channels ever obtain the same channel_id_, whatever the
\* interleaving of the constructors that assign them.
C12_IdsUnique ==
    \A t1, t2 \in Threads :
        \A i \in 1..Len(ctors[t1].ids), j \in 1..Len(ctors[t2].ids) :
            (t1 # t2 \/ i # j) => ctors[t1].ids[i] # ctors[t2].ids[j]

\* C13: a payload read is issued with the buffer resized to the payload_length
\* of the header verified in this cycle and asks for exactly that many bytes;
\* the buffer keeps that size while the read is outstanding and still has it
\* when the payload handler runs without error.
C13_PayloadBufferSized ==
    /\ last.read_issued = "payload" =>
        /\ last.read_size = last.hdr.payload_length
        /\ inbound_payload_ = last.hdr.payload_length
    /\ read_op.stage = "payload" =>
        /\ inbound_payload_ = read_op.hdr.payload_length
        /\ header_check.result = TRUE
        /\ header_check.hdr.payload_length = read_op.hdr.payload_length
    /\ (ReadCompleted /\ last.handler = "read_payload") =>
        last.payload_size = last.hdr.payload_length

\* An empty payload read after the checksum stage, completed without error.
C13_Witness ==
    /\ ReadCompleted
    /\ last.handler = "read_payload"
    /\ last.hdr.checksum # 0
    /\ last.hdr.payload_length = 0
    /\ last.payload_size = 0

\* The header of scenario A as it is bound to the payload read: verack, no
\* payload, no checksum read.
VerackHeader == [command |-> "verack", payload_length |-> 0, checksum |-> 0]

WentOn == last.read_issued # "none" \/ last.kernel # "na" \/ last.rearmed

\* C15: once a teardown request has been issued (before the step just
\* taken), no step issues a read, delivers to the kernel or rearms the timer.
C15_DestroyedIsAbsorbing ==
    disconnects - last.teardowns > 0 => ~WentOn

\* Position of call c in the calls of the step just taken (0: not called).
CallIndex(c) ==
    IF \E i \in 1..Len(last.calls) : last.calls[i] = c
    THEN CHOOSE i \in 1..Len(last.calls) : last.calls[i] = c
    ELSE 0

\* The read call the step just taken made.
ReadCall == "read_" \o last.read_issued

TimerFresh == timeout_.pending /\ timeout_.deadline = now + disconnect_timeout

\* C16 as stated: whenever a step issues a read it has called reset_timeout
\* before, so no state has a read outstanding on a live channel with the
\* timer not yet rearmed for it.
C16_RearmBeforeRead ==
    last.read_issued # "none" =>
        /\ CallIndex("reset_timeout") > 0
        /\ CallIndex("reset_timeout") < CallIndex(ReadCall)
        /\ TimerFresh

\* C16 as amended: a read handler that goes on issues the next read first and
\* calls reset_timeout right after it, in the same invocation, so the timer is
\* rearmed when the handler returns; the constructor issues the header read
\* with the timer not armed and arms it in its next statement.
C16_ReadThenRearm ==
    /\ (last.read_issued # "none" /\ last.handler \in ReadHandlers) =>
        /\ CallIndex(ReadCall) > 0
        /\ CallIndex("reset_timeout") = CallIndex(ReadCall) + 1
        /\ CallIndex("reset_timeout") = Len(last.calls)
        /\ TimerFresh
    /\ pc = "ctor_timer" =>
        /\ last.calls = <<"read_header">>
        /\ read_op.stage = "header"
        /\ ~timeout_.pending
    /\ pc = "ctor_send" =>
        /\ last.calls = <<"reset_timeout">>
        /\ read_op.stage = "header"
        /\ TimerFresh

C16_Witness ==
    /\ last.handler = "read_checksum"
    /\ last.calls = <<"read_payload", "reset_timeout">>
    /\ now > 0
    /\ TimerFresh

CtorStep(call) == last.handler = "ctor" /\ last.calls = <<call>>

CallCount(c) == Cardinality({i \in 1..Len(last.calls) : last.calls[i] = c})

\* Which read each stage's handler issues, and what it hands on.
C19_Stages ==
    /\ last.read_issued = "checksum" =>
        (last.handler = "read_header" /\ last.checksum_used = "true")
    /\ (last.handler = "read_header" /\ last.checksum_used = "true") =>
        (last.read_issued = "checksum" /\ read_op = [stage |-> "checksum", hdr |-> last.hdr])
    /\ (last.handler = "read_header" /\ last.checksum_used = "false") =>
        (last.read_issued = "payload" /\ read_op = [stage |-> "payload", hdr |-> last.hdr])
    /\ last.read_issued = "payload" =>
        \/ last.handler = "read_header" /\ last.checksum_used = "false"
        \/ last.handler = "read_checksum" /\ last.ec = Success
    /\ (last.handler = "read_checksum" /\ last.read_issued = "payload") =>
        /\ last.checksum_read \in 1..MaxChecksum
        /\ read_op.stage = "payload"
        /\ read_op.hdr.checksum = last.checksum_read
    /\ last.read_issued = "header" => last.handler \in {"ctor", "read_payload"}
    /\ last.kernel # "na" =>
        (last.handler = "read_payload" /\ CallCount("recv_message") = 1)
    /\ CallCount("recv_message") <= 1
    /\ (last.handler = "read_payload" /\ last.read_issued = "header") =>
        /\ CallIndex("verify_checksum") = 1
        /\ CallIndex("recv_message") < CallIndex("read_header")
        /\ read_op.stage = "header"

\* Each handler completes the read of the stage before it, on the header that
\* stage bound to it.
C19_Handoff ==
    /\ last'.read_issued = "checksum" => read_op.stage = "header"
    /\ (last'.handler = "read_checksum" /\ last'.read_issued = "payload") =>
        /\ read_op.stage = "checksum"
        /\ last'.hdr = [read_op.hdr EXCEPT !.checksum = last'.checksum_read]
    /\ (last'.handler = "read_header" /\ last'.read_issued = "payload") =>
        read_op.stage = "header"
    /\ (last'.handler = "read_payload" /\ last'.verify_checksum # "na") =>
        (read_op.stage = "payload" /\ last'.hdr = read_op.hdr)

\* C19: the stages of a cycle run header, checksum iff checksum_used, payload,
\* at most one Kernel delivery, next header read; the header passed to
\* verify_checksum carries the checksum value that was read.
C19_StageOrder ==
    []C19_Stages /\ [][C19_Handoff]_vars

\* A payload completes on a header whose checksum was read in this cycle, the
\* message is delivered and the next header read is issued.
C19_Witness ==
    /\ last.handler = "read_payload"
    /\ last.hdr.checksum # 0
    /\ last.kernel = "accept"
    /\ last.read_issued = "header"

ReadSide == <<read_op, async_reads, inbound_payload_, header_check>>

\* What a step of handle_send, of send and of the constructor's send changes.
C20_Frame ==
    /\ last'.handler = "handle_send" =>
        /\ UNCHANGED <<ReadSide, timeout_, pc, sends>>
        /\ write_ops' = write_ops - 1
        /\ disconnects' = disconnects + (IF last'.ec = IoError THEN 1 ELSE 0)
        /\ last'.teardowns = disconnects' - disconnects
        /\ ~last'.rearmed /\ last'.read_issued = "none" /\ last'.kernel = "na"
    /\ (last'.handler = "send" \/ (last'.handler = "ctor" /\ last'.calls = <<"send">>)) =>
        /\ UNCHANGED <<ReadSide, timeout_, disconnects>>
        /\ write_ops' = write_ops + 1
        /\ last'.teardowns = 0 /\ ~last'.rearmed /\ last'.ec = Success

\* C20: a write completion without error changes nothing but the count of
\* outstanding writes; send neither rearms the timer nor requests teardown
\* and reports nothing; only a write completion with an error other than
\* operation_aborted requests teardown.
C20_WriteCompletionFrame ==
    [][C20_Frame]_vars

\* A write has completed without error while a payload read is pending and
\* the timer is armed.
C20_Witness ==
    /\ last.handler = "handle_send"
    /\ last.ec = Success
    /\ read_op.stage = "payload"
    /\ timeout_.pending
    /\ disconnects = 0

====
